---- MODULE Spec2Model ----
(***************************************************************************)
(* Chunked large-file upload of the OneDrive client:                       *)
(* DriveItemsService.UploadLargeFile and DriveItemsService.uploadChunk     *)
(* (src/onedrive/driveitems.go).  One upload call is modelled as a state   *)
(* machine whose position (pc) is the blocking point the goroutine is at:  *)
(* the session-creation request, a step of uploadChunk, a chunk PUT in     *)
(* flight, the deferred cleanup DELETE, and the return to the caller.      *)
(*                                                                         *)
(* Text that the code parses (the entries of nextExpectedRanges) is a      *)
(* sequence of one-character strings; text that the code only produces     *)
(* (headers, error messages) is a string.                                  *)
(***************************************************************************)
EXTENDS Integers, Sequences, FiniteSets, TLC

VARIABLES
    pc,         \* position of the call: idle, creating, step, put, unwind, cleanup, done
    args,       \* the arguments of UploadLargeFile and the bytes behind file.Data
    cancelled,  \* ctx has been cancelled
    offset,     \* uploadChunk's offset parameter of the current step
    length,     \* uploadChunk's length parameter of the current step
    buffer,     \* the buffer slice: its len, its cap, and the allocation it points to
    resolved,   \* how (offset, length) was obtained: "initial" or "range"
    lastRead,   \* the last file.Data.ReadAt: its number, bytes requested, offset, n, err
    puts,       \* the chunk PUT requests sent so far, in order
    resp,       \* the last answer received for a chunk PUT
    ret,        \* what uploadChunk / UploadLargeFile returns: item, err, panic
    net         \* the other traffic: session POSTs, answers received to PUTs, cleanup DELETEs

vars == <<pc, args, cancelled, offset, length, buffer, resolved, lastRead, puts, resp, ret, net>>

----------------------------------------------------------------------------
(* Bounds of the model *)

\* width of the machine word standing for uint64 (and int64 for its signed half)
WordBits == 25
\* declared file sizes 1..MaxSize are enumerated next to the sizes of the examples
MaxSize == 3
\* caller-chosen chunk sizes 1..MaxChunk are enumerated next to the default
MaxChunk == 3
\* an upload sends at most MaxPuts chunk PUTs
MaxPuts == 3

Word == 2 ^ WordBits
\* int64(x) is negative exactly for the upper half of the words
IsNegativeAsInt64(x) == x >= Word \div 2

\* var chunkSize uint64 = 4 * 1024 * 1024
DefaultChunkSize == 4194304

Min(a, b) == IF a < b THEN a ELSE b

----------------------------------------------------------------------------
(* Decimal text *)

DigitChars == <<"0", "1", "2", "3", "4", "5", "6", "7", "8", "9">>
IsDigit(c) == \E i \in 1..10 : DigitChars[i] = c
DigitValue(c) == (CHOOSE i \in 1..10 : DigitChars[i] = c) - 1

\* %d of fmt.Sprintf and strconv.Itoa, for a non-negative number: a string
RECURSIVE Itoa(_)
Itoa(n) == IF n < 10 THEN DigitChars[n + 1]
           ELSE Itoa(n \div 10) \o DigitChars[(n % 10) + 1]

\* the same text as a sequence of characters, as a server writes a range entry
RECURSIVE DecimalChars(_)
DecimalChars(n) == IF n < 10 THEN <<DigitChars[n + 1]>>
                   ELSE Append(DecimalChars(n \div 10), DigitChars[(n % 10) + 1])

\* strings.Split(s, "-"): the pieces between the dashes; one piece when there is none
RECURSIVE SplitFrom(_, _, _)
SplitFrom(s, i, piece) ==
    IF i > Len(s) THEN <<piece>>
    ELSE IF s[i] = "-" THEN <<piece>> \o SplitFrom(s, i + 1, <<>>)
    ELSE SplitFrom(s, i + 1, Append(piece, s[i]))
Split(s) == SplitFrom(s, 1, <<>>)

\* strconv.ParseUint(s, 10, 64): syntax error on an empty text or a non-digit,
\* range error when the value does not fit the word
RECURSIVE ParseDigits(_, _, _)
ParseDigits(s, i, acc) ==
    IF i > Len(s) THEN [ok |-> TRUE, val |-> acc]
    ELSE IF ~IsDigit(s[i]) THEN [ok |-> FALSE, val |-> 0]
    ELSE IF acc * 10 + DigitValue(s[i]) >= Word THEN [ok |-> FALSE, val |-> Word - 1]
    ELSE ParseDigits(s, i + 1, acc * 10 + DigitValue(s[i]))
ParseUint(s) == IF Len(s) = 0 THEN [ok |-> FALSE, val |-> 0] ELSE ParseDigits(s, 1, 0)

----------------------------------------------------------------------------
(* Values returned to the caller *)

NoItem == "nil"
NoErr == [kind |-> "nil", text |-> ""]
\* errors.New and fmt.Errorf values
ErrorString(t) == [kind |-> "errorString", text |-> t]
\* the error of a failed json.Unmarshal
JSONError == [kind |-> "json", text |-> "json: cannot decode the body"]
\* the error of a failed strconv.ParseUint
NumError == [kind |-> "strconv", text |-> "strconv.ParseUint: parsing failed"]
\* the error of a failed http.NewRequest on a malformed URL
URLError == [kind |-> "url", text |-> "parse: malformed URL"]
\* the error a reader returns besides io.EOF
ReaderError(t) == [kind |-> "reader", text |-> t]
\* the error of s.client.Do for the session-creation request
SessionError(t) == [kind |-> "session", text |-> t]
\* the error of ioutil.ReadAll on the response body
BodyReadError == [kind |-> "body", text |-> "read of the response body failed"]
\* ctx.Err() of a cancelled context, as the aborted read of the body returns it
ContextCanceled == [kind |-> "context", text |-> "context canceled"]

\* processHTTPError(ctx, err): the transport error, or the context's when it is done
processHTTPError(ctxDone) ==
    [kind |-> "transport",
     text |-> IF ctxDone THEN "context canceled" ELSE "transport failure"]

\* (e *Error) Error()
\* the date of the inner error is left out of the message
ErrorTextWithoutDate(e) == e.code \o " - " \o e.message

\* func (e *Error) Error() string
ErrorText(e) ==
    IF e.inner THEN e.code \o " - " \o e.message \o " (" \o e.date \o ")"
    ELSE e.code \o " - " \o e.message
DomainError(e) == [kind |-> "onedrive.Error", text |-> ErrorText(e)]

\* how a step of uploadChunk ends: it returns, it panics, or it calls itself
Return(item, err) ==
    [kind |-> "return", item |-> item, err |-> err, panic |-> "", offset |-> 0, length |-> 0]
Panic(what) ==
    [kind |-> "panic", item |-> NoItem, err |-> NoErr, panic |-> what, offset |-> 0, length |-> 0]
\* the recursive call is made with the offset of the step, not the next one
RecurseAtSameOffset(nextOffset, nextLength) ==
    [kind |-> "next", item |-> NoItem, err |-> NoErr, panic |-> "",
     offset |-> lastRead.off, length |-> nextLength]

\* the next offset is counted on from the bytes sent, not taken from the answer
RecurseAfterBytesSent(nextOffset, nextLength) ==
    [kind |-> "next", item |-> NoItem, err |-> NoErr, panic |-> "",
     offset |-> lastRead.off + lastRead.n, length |-> nextLength]

Recurse(nextOffset, nextLength) ==
    [kind |-> "next", item |-> NoItem, err |-> NoErr, panic |-> "",
     offset |-> nextOffset, length |-> nextLength]

----------------------------------------------------------------------------
(* Response bodies and their decoding by json.Unmarshal *)

NoRemoteError == [code |-> "", message |-> "", inner |-> FALSE, date |-> ""]
Body(kind, raw, id, ranges, error) ==
    [kind |-> kind, raw |-> raw, id |-> id, ranges |-> ranges, error |-> error]

GarbageBody == Body("garbage", "<html>Bad Gateway</html>", "", <<>>, NoRemoteError)
NullBody == Body("null", "null", "", <<>>, NoRemoteError)
EmptyObjectBody == Body("object", "{}", "", <<>>, NoRemoteError)
ItemBody == Body("item", "{\"id\":\"item1\"}", "item1", <<>>, NoRemoteError)
SessionBody(ranges) == Body("session", "{\"nextExpectedRanges\":[...]}", "", ranges, NoRemoteError)
ErrorBody(e) == Body("error", "{\"error\":{...}}", "", <<>>, e)

\* json.Unmarshal(responseBody, &item) with var item DriveItem
UnmarshalDriveItem(body) ==
    IF body.kind = "garbage" THEN [ok |-> FALSE, item |-> NoItem]
    ELSE IF body.kind = "item" THEN [ok |-> TRUE, item |-> body.id]
    ELSE [ok |-> TRUE, item |-> "zero DriveItem"]

\* json.Unmarshal(responseBody, &session) with var session UploadSession
UnmarshalUploadSession(body) ==
    IF body.kind = "garbage" THEN [ok |-> FALSE, ranges |-> <<>>]
    ELSE IF body.kind = "session" THEN [ok |-> TRUE, ranges |-> body.ranges]
    ELSE [ok |-> TRUE, ranges |-> <<>>]

\* json.Unmarshal(responseBody, &oneDriveError) with var oneDriveError *ErrorResponse:
\* a JSON null leaves the pointer nil
UnmarshalErrorResponse(body) ==
    IF body.kind = "garbage" THEN [ok |-> FALSE, isNil |-> TRUE, hasError |-> FALSE]
    ELSE IF body.kind = "null" THEN [ok |-> TRUE, isNil |-> TRUE, hasError |-> FALSE]
    ELSE [ok |-> TRUE, isNil |-> FALSE, hasError |-> body.kind = "error"]

\* resp.Status
StatusLine(code) ==
    CASE code = 200 -> "200 OK"
      [] code = 201 -> "201 Created"
      [] code = 202 -> "202 Accepted"
      [] code = 204 -> "204 No Content"
      [] code = 400 -> "400 Bad Request"
      [] OTHER -> "500 Internal Server Error"

\* an answer of s.client.client.Do to a chunk PUT, and of ReadAll on its body
HTTPResponse(code, body) ==
    [transport |-> FALSE, readErr |-> FALSE, status |-> code, line |-> StatusLine(code), body |-> body]
TransportFailure ==
    [transport |-> TRUE, readErr |-> FALSE, status |-> 0, line |-> "", body |-> NullBody]
BodyReadFailure(code) ==
    [transport |-> FALSE, readErr |-> TRUE, status |-> code, line |-> StatusLine(code), body |-> NullBody]
NoResponse ==
    [transport |-> FALSE, readErr |-> FALSE, status |-> 0, line |-> "", body |-> NullBody]

----------------------------------------------------------------------------
(* uploadChunk: interpretation of the response (lines 748-803) *)

\* case 200, 201
\* only 201 Created ends the upload with the item
FileCompleteOnCreated(r) ==
    LET d == UnmarshalDriveItem(r.body)
    IN  IF ~d.ok THEN Return(NoItem, JSONError)
        ELSE IF r.status = 201 THEN Return(d.item, NoErr)
        ELSE Return(NoItem, ErrorString(r.line \o ": " \o r.body.raw))

FileComplete(r) ==
    LET d == UnmarshalDriveItem(r.body)
    IN  IF ~d.ok THEN Return(NoItem, JSONError) ELSE Return(d.item, NoErr)

\* the next length falls back to the default chunk size, not to the last length
NextLengthOfDefault(start, end, len) ==
    IF end = <<>> THEN [ok |-> TRUE, val |-> DefaultChunkSize] ELSE ParseUint(end)

\* nextLength := length; if end != "" { nextLength, err = strconv.ParseUint(end, 10, 64) }
NextLength(start, end, len) ==
    IF end = <<>> THEN [ok |-> TRUE, val |-> len] ELSE ParseUint(end)

\* the list of next expected ranges is used unchecked
RangesNeverMissing(ranges) == FALSE

\* if len(session.NextExpectedRanges) < 1
RangesMissing(ranges) == Len(ranges) < 1

\* case 202
NextChunkExpected(r, len) ==
    LET s == UnmarshalUploadSession(r.body)
    IN  IF ~s.ok THEN Return(NoItem, JSONError)
        ELSE IF RangesMissing(s.ranges)
        THEN Return(NoItem, ErrorString("next expected ranges is empty, but we didn't receive DriveItem obejct in response"))
        ELSE IF Len(s.ranges) < 1 THEN Panic("index out of range [0] with length 0")
        ELSE LET sp == Split(s.ranges[1])
             IN  IF Len(sp) < 2 THEN Panic("index out of range [1] with length 1")
                 ELSE LET nextOffset == ParseUint(sp[1])
                          nextLength == NextLength(sp[1], sp[2], len)
                      IN  IF ~nextOffset.ok THEN Return(NoItem, NumError)
                          ELSE IF ~nextLength.ok THEN Return(NoItem, NumError)
                          ELSE Recurse(nextOffset.val, nextLength.val)

\* default
OtherStatus(r) ==
    LET e == UnmarshalErrorResponse(r.body)
    IN  IF ~e.ok THEN Return(NoItem, JSONError)
        ELSE IF e.isNil THEN Panic("invalid memory address or nil pointer dereference")
        ELSE IF ~e.hasError THEN Return(NoItem, ErrorString(r.line \o ": " \o r.body.raw))
        ELSE Return(NoItem, DomainError(r.body.error))

\* a chunk whose PUT failed in the transport is sent again
InterpretRetrying(r, len, ctxDone) ==
    IF r.transport THEN Recurse(lastRead.off, len)
    ELSE IF r.readErr THEN Return(NoItem, IF ctxDone THEN ContextCanceled ELSE BodyReadError)
    ELSE IF r.status \in {200, 201} THEN FileComplete(r)
    ELSE IF r.status = 202 THEN NextChunkExpected(r, len)
    ELSE OtherStatus(r)

\* the outcome of Do, of ReadAll and the switch on resp.StatusCode
Interpret(r, len, ctxDone) ==
    IF r.transport THEN Return(NoItem, processHTTPError(ctxDone))
    ELSE IF r.readErr THEN Return(NoItem, IF ctxDone THEN ContextCanceled ELSE BodyReadError)
    ELSE IF r.status \in {200, 201} THEN FileComplete(r)
    ELSE IF r.status = 202 THEN NextChunkExpected(r, len)
    ELSE OtherStatus(r)

----------------------------------------------------------------------------
(* The data source: file.Data.ReadAt(p, off) over the bytes behind the reader *)

ReadResult(n, err) == [n |-> n, err |-> err]

\* the results ReadAt(p, int64(off)) can have for len(p) = want.  A sound reader
\* follows io.ReaderAt: n < len(p) comes with a non-nil error, io.EOF at the end
\* of the data; a read into an empty p returns 0 with or without io.EOF at the
\* end of the data, depending on the reader.  A faulty reader can also fail.
ReadAtResults(want, off, dataLen, reader) ==
    IF IsNegativeAsInt64(off) THEN {ReadResult(0, "negative offset")}
    ELSE LET avail == IF off >= dataLen THEN 0 ELSE dataLen - off
             n == Min(want, avail)
             sound == IF want = 0
                      THEN IF avail > 0 THEN {ReadResult(0, "nil")}
                           ELSE {ReadResult(0, "nil"), ReadResult(0, "EOF")}
                      ELSE {ReadResult(n, IF n < want THEN "EOF" ELSE "nil")}
             faults == IF reader # "faulty" THEN {}
                       ELSE IF n < 2 THEN {ReadResult(0, "input/output error")}
                       ELSE {ReadResult(0, "input/output error"),
                             ReadResult(1, "input/output error")}
         IN  sound \cup faults

----------------------------------------------------------------------------
(* uploadChunk: from the entry of a step to the PUT (lines 718-747) *)

Buffer(len, cap, alloc, from, filled) ==
    [len |-> len, cap |-> cap, alloc |-> alloc, from |-> from, filled |-> filled]

\* make([]byte, n): a fresh allocation holding no byte of the source
MakeBuffer(n, alloc) == Buffer(n, n, alloc, 0, 0)

\* if uint64(len(buffer)) < length { buffer = make([]byte, length) }; buffer = buffer[:length]
Reslice(buf, len) ==
    IF buf.len < len THEN MakeBuffer(len, buf.alloc + 1)
    ELSE [buf EXCEPT !.len = len]

\* the buffer after the read when it is not cut to the bytes read
AfterReadKeepsLength(buf, off, n) == [buf EXCEPT !.from = off, !.filled = n]

\* the buffer after ReadAt stored n bytes of the source from off, and buffer = buffer[:n]
AfterRead(buf, off, n) == [buf EXCEPT !.len = n, !.from = off, !.filled = n]

\* the request body is the whole allocation, not the bytes read
BodyOfCapacity(buf) == [from |-> buf.from, len |-> buf.cap, stale |-> buf.cap > buf.filled]

\* the bytes bytes.NewReader(buffer) hands to the request: the first len(buffer)
\* bytes of the buffer; stale when they are not all bytes of the last read
BodyOf(buf) == [from |-> buf.from, len |-> buf.len, stale |-> buf.len > buf.filled]

\* offset-1 stops at zero instead of wrapping round the word
RangeLastWithoutWrap(off, n) == (IF off = 0 THEN n ELSE off - 1 + n) % Word

\* the end of the range taken as exclusive: the "-1" dropped
RangeLastExclusive(off, n) == (off + n) % Word

\* offset-1+uint64(n), in the arithmetic of the word
RangeLast(off, n) == (off + (Word - 1) + n) % Word

\* fmt.Sprintf("bytes %d-%d/%d", offset, offset-1+uint64(n), file.Size)
ContentRange(off, n, total) ==
    "bytes " \o Itoa(off) \o "-" \o Itoa(RangeLast(off, n)) \o "/" \o Itoa(total)

\* the PUT request of a step: its two headers, the numbers they carry, its body
ChunkRequest(off, n, total, buf) ==
    [first |-> off, last |-> RangeLast(off, n), total |-> total,
     contentLength |-> Itoa(n), contentRange |-> ContentRange(off, n, total),
     body |-> BodyOf(buf)]

\* if n == 0 { if err == io.EOF { return nil, errors.New("unexpected EOF") }; return nil, err }
NothingRead(rd) ==
    IF rd.err = "EOF" THEN Return(NoItem, ErrorString("unexpected EOF"))
    ELSE IF rd.err = "nil" THEN Return(NoItem, NoErr)
    ELSE Return(NoItem, ReaderError(rd.err))

\* http.NewRequest fails on a URL that does not parse
Malformed(url) == url = "\n"

----------------------------------------------------------------------------
(* State *)

NoRead == [seq |-> 0, want |-> 0, off |-> 0, n |-> 0, err |-> "nil"]
NoReturn == [kind |-> "none", item |-> NoItem, err |-> NoErr, panic |-> ""]
Returned(out) == [kind |-> out.kind, item |-> out.item, err |-> out.err, panic |-> out.panic]

Args(dest, name, size, hasData, dataLen, reader, chunkSize, conflict) ==
    [dest |-> dest, name |-> name, size |-> size, hasData |-> hasData, dataLen |-> dataLen,
     reader |-> reader, chunkSize |-> chunkSize, conflict |-> conflict]

\* file sizes and chunk sizes of the documented examples, and a caller that
\* sets the conflict behaviour
ExampleArgs ==
    { Args("folder", "f.bin", 10000000, TRUE, 10000000, "sound", 0, ""),
      Args("folder", "f.bin", 2, TRUE, 2, "sound", 1, "rename"),
      Args("folder", "f.bin", 10000000, TRUE, 10000000, "sound", 1048576, ""),
      Args("folder", "f.bin", 500000, TRUE, 500000, "sound", 1048576, "") }

\* callers whose arguments pass the checks: the source holds the declared bytes
\* or one byte less, and the reader may be faulty
ValidArgs ==
    { Args("folder", "f.bin", size, TRUE, dataLen, reader, chunk, "") :
        size \in 1..MaxSize, dataLen \in 0..MaxSize, reader \in {"sound", "faulty"},
        chunk \in 0..MaxChunk }

\* callers with one argument missing or unusable
InvalidArgs ==
    { Args("", "f.bin", 1, TRUE, 1, "sound", 0, ""),
      Args("folder", "", 1, TRUE, 1, "sound", 0, ""),
      Args("folder", "f.bin", 0, TRUE, 0, "sound", 0, ""),
      Args("folder", "f.bin", 1, FALSE, 0, "sound", 0, ""),
      Args("", "", 0, FALSE, 0, "sound", 2, "rename"),
      Args("folder", "f.bin", 1, TRUE, 1, "sound", 0, "\n") }

InitWith(callers) ==
    /\ pc = "idle"
    /\ args \in callers
    /\ cancelled = FALSE
    /\ offset = 0
    /\ length = 0
    /\ buffer = MakeBuffer(0, 0)
    /\ resolved = "initial"
    /\ lastRead = NoRead
    /\ puts = <<>>
    /\ resp = NoResponse
    /\ ret = NoReturn
    /\ net = [posts |-> 0, url |-> "", deferred |-> FALSE, answers |-> 0, cleanups |-> 0,
              deletes |-> 0, cleanup |-> "none"]

Init == InitWith({a \in ValidArgs : a.dataLen \in {a.size, a.size - 1}} \cup ExampleArgs \cup InvalidArgs)

----------------------------------------------------------------------------
(* The service: answers to the requests of one upload *)

Dash == <<"-">>

\* first entries of nextExpectedRanges a server may send after a chunk of n bytes
\* at off that was asked with length len: well-formed "start-" and "start-end"
\* entries (start repeating, advancing or far away; end inclusive, zero or far
\* away) and entries that are no range at all
RangeEntries(off, n, len) ==
    LET starts == {0, off, off + n, Word - 1}
        ends(a) == {b \in {0, a + len - 1, Word - 1} : b >= 0 /\ b < Word}
    IN  {DecimalChars(a) \o Dash : a \in starts}
        \cup UNION {{DecimalChars(a) \o Dash \o DecimalChars(b) : b \in ends(a)} :
                       a \in {0, off, off + n}}
        \cup { <<>>, DecimalChars(off + n), Dash, <<"x">> \o Dash,
               DecimalChars(off + n) \o Dash \o <<"x">>,
               DecimalChars(Word) \o Dash,
               DecimalChars(off + n) \o Dash \o DecimalChars(Word),
               DecimalChars(off + n) \o Dash \o DecimalChars(off + n) \o Dash \o <<"9">> }

RemoteErrors ==
    { [code |-> "invalidRequest", message |-> "bad range", inner |-> TRUE, date |-> "2020-01-01T00:00:00"],
      [code |-> "itemNotFound", message |-> "session gone", inner |-> FALSE, date |-> ""] }

\* every answer to a chunk PUT
PutAnswers(off, n, len) ==
    {TransportFailure, BodyReadFailure(202)}
    \cup {HTTPResponse(code, b) : code \in {200, 201}, b \in {ItemBody, GarbageBody, NullBody}}
    \cup {HTTPResponse(202, b) : b \in {GarbageBody, NullBody, ItemBody, SessionBody(<<>>)}}
    \cup {HTTPResponse(202, SessionBody(<<e>>)) : e \in RangeEntries(off, n, len)}
    \cup {HTTPResponse(202, SessionBody(<<DecimalChars(off + n) \o Dash, DecimalChars(0) \o Dash>>))}
    \cup {HTTPResponse(code, b) : code \in {400, 500},
                                  b \in {GarbageBody, NullBody, EmptyObjectBody, ItemBody}}
    \cup {HTTPResponse(400, ErrorBody(e)) : e \in RemoteErrors}

\* the number of bytes the service has received in the chunks sent so far
RECURSIVE BytesReceived(_)
BytesReceived(ps) ==
    IF ps = <<>> THEN 0 ELSE ps[Len(ps)].body.len + BytesReceived(SubSeq(ps, 1, Len(ps) - 1))

\* a service that asks for the rest of the file with an open-ended range until it
\* has all the bytes of the declared total, and then completes the file
ContinuingAnswers(ps) ==
    LET received == BytesReceived(ps)
    IN  IF received < ps[Len(ps)].total
        THEN {HTTPResponse(202, SessionBody(<<DecimalChars(received) \o Dash>>))}
        ELSE {HTTPResponse(200, ItemBody), HTTPResponse(201, ItemBody)}

\* results of s.client.Do for the session-creation request
SessionCreated(url) == [ok |-> TRUE, url |-> url, err |-> NoErr]
SessionRefused(t) == [ok |-> FALSE, url |-> "", err |-> SessionError(t)]
SessionResults(ctxDone) ==
    IF ctxDone THEN {SessionRefused("context canceled")}
    ELSE {SessionCreated("https://upload.example/session1"), SessionCreated("\n"),
          SessionRefused("accessDenied - no permission")}

\* results of the cleanup DELETE
CleanupResults == {"transport failure", "204", "500"}

----------------------------------------------------------------------------
(* UploadLargeFile *)

\* the checks with the one of the file size left out
RejectionWithoutSize(a) ==
    IF a.dest = "" THEN ErrorString("Please provide the destination, i.e. the ID of the parent folder for this new item.")
    ELSE IF a.name = "" THEN ErrorString("Please provide the file name.")
    ELSE IF ~a.hasData THEN ErrorString("Please provide the file reader.")
    ELSE IF Malformed(a.conflict) THEN URLError
    ELSE NoErr

\* the checks of the arguments and the URL of the session-creation request
\* (lines 651-682): the error returned before any request, or NoErr
Rejection(a) ==
    IF a.dest = "" THEN ErrorString("Please provide the destination, i.e. the ID of the parent folder for this new item.")
    ELSE IF a.name = "" THEN ErrorString("Please provide the file name.")
    ELSE IF a.size = 0 THEN ErrorString("Please provide the file size.")
    ELSE IF ~a.hasData THEN ErrorString("Please provide the file reader.")
    ELSE IF Malformed(a.conflict) THEN URLError
    ELSE NoErr

\* var chunkSize uint64 = 4 * 1024 * 1024; if opts.ChunkSize != 0 { chunkSize = opts.ChunkSize }
ChunkSize(a) == IF a.chunkSize # 0 THEN a.chunkSize ELSE DefaultChunkSize

\* the cleanup runs only for an upload that failed
AfterUploadChunkFailed(out) == IF out.kind = "return" /\ out.err = NoErr THEN "done" ELSE "unwind"

\* where the call goes when uploadChunk has returned or panicked: the deferred
\* function registered after the session was created runs on every exit
AfterUploadChunk(out) == "unwind"

\* the call up to the session-creation request
Call ==
    /\ pc = "idle"
    /\ IF Rejection(args) # NoErr
       THEN /\ ret' = Returned(Return(NoItem, Rejection(args)))
            /\ pc' = "done"
            /\ net' = net
       ELSE /\ net' = [net EXCEPT !.posts = @ + 1]
            /\ pc' = "creating"
            /\ ret' = ret
    /\ UNCHANGED <<args, cancelled, offset, length, buffer, resolved, lastRead, puts, resp>>

\* the cleanup is registered before the result of the session request is looked at
SessionResponseCleansUp(r) ==
    /\ pc = "creating"
    /\ IF ~r.ok
       THEN /\ ret' = Returned(Return(NoItem, r.err))
            /\ net' = [net EXCEPT !.url = r.url, !.deferred = TRUE]
            /\ pc' = "unwind"
            /\ UNCHANGED <<offset, length, buffer>>
       ELSE /\ net' = [net EXCEPT !.url = r.url, !.deferred = TRUE]
            /\ buffer' = MakeBuffer(ChunkSize(args), 1)
            /\ offset' = 0
            /\ length' = ChunkSize(args)
            /\ pc' = "step"
            /\ ret' = ret
    /\ UNCHANGED <<args, cancelled, resolved, lastRead, puts, resp>>

\* err = s.client.Do(ctx, req, false, &session), the defer, the first buffer and
\* the call of uploadChunk with offset 0 and the chunk size
SessionResponse(r) ==
    /\ pc = "creating"
    /\ IF ~r.ok
       THEN /\ ret' = Returned(Return(NoItem, r.err))
            /\ pc' = "done"
            /\ UNCHANGED <<net, offset, length, buffer>>
       ELSE /\ net' = [net EXCEPT !.url = r.url, !.deferred = TRUE]
            /\ buffer' = MakeBuffer(ChunkSize(args), 1)
            /\ offset' = 0
            /\ length' = ChunkSize(args)
            /\ pc' = "step"
            /\ ret' = ret
    /\ UNCHANGED <<args, cancelled, resolved, lastRead, puts, resp>>

\* one step of uploadChunk up to s.client.client.Do(uploadReq)
ReadAndSend(rd) ==
    /\ pc = "step"
    /\ Len(puts) < MaxPuts
    /\ IF buffer.len < length /\ IsNegativeAsInt64(length)
       THEN \* make([]byte, length) panics: len out of range
            /\ ret' = Returned(Panic("makeslice: len out of range"))
            /\ pc' = AfterUploadChunk(Panic("makeslice: len out of range"))
            /\ UNCHANGED <<buffer, lastRead, puts>>
       ELSE /\ rd \in ReadAtResults(length, offset, args.dataLen, args.reader)
            /\ lastRead' = [seq |-> lastRead.seq + 1, want |-> length, off |-> offset,
                            n |-> rd.n, err |-> rd.err]
            /\ IF rd.n = 0
               THEN /\ buffer' = Reslice(buffer, length)
                    /\ ret' = Returned(NothingRead(rd))
                    /\ pc' = AfterUploadChunk(NothingRead(rd))
                    /\ puts' = puts
               ELSE /\ buffer' = AfterRead(Reslice(buffer, length), offset, rd.n)
                    /\ IF Malformed(net.url)
                       THEN /\ ret' = Returned(Return(NoItem, URLError))
                            /\ pc' = AfterUploadChunk(Return(NoItem, URLError))
                            /\ puts' = puts
                       ELSE /\ puts' = Append(puts, ChunkRequest(offset, rd.n, args.size, buffer'))
                            /\ pc' = "put"
                            /\ ret' = ret
    /\ UNCHANGED <<args, cancelled, offset, length, resolved, resp, net>>

\* the request is made without the context of the call
RequestWithoutContext(ctxDone) == FALSE

\* http.NewRequestWithContext(ctx, "PUT", ...): the request is bound to ctx, so
\* once ctx is done the transport aborts it and Do or the read of the body fails
RequestContext(ctxDone) == ctxDone

\* the answer to the PUT in flight and what uploadChunk does with it: it returns,
\* it panics, or it calls itself with the next offset and length
PutResponse(r) ==
    /\ pc = "put"
    /\ RequestContext(cancelled) => r.transport \/ r.readErr
    /\ resp' = r
    /\ net' = [net EXCEPT !.answers = @ + 1]
    /\ LET out == Interpret(r, length, cancelled)
       IN  IF out.kind = "next"
           THEN /\ offset' = out.offset
                /\ length' = out.length
                /\ resolved' = "range"
                /\ pc' = "step"
                /\ ret' = ret
           ELSE /\ ret' = Returned(out)
                /\ pc' = AfterUploadChunk(out)
                /\ UNCHANGED <<offset, length, resolved>>
    /\ UNCHANGED <<args, cancelled, buffer, lastRead, puts>>

\* the deferred function up to s.client.client.Do(req): the DELETE is sent unless
\* it cannot be built
RunDeferred ==
    /\ pc = "unwind"
    /\ net.deferred
    /\ IF Malformed(net.url)
       THEN /\ net' = [net EXCEPT !.cleanups = @ + 1, !.cleanup = "not built"]
            /\ pc' = "done"
       ELSE /\ net' = [net EXCEPT !.cleanups = @ + 1, !.deletes = @ + 1]
            /\ pc' = "cleanup"
    /\ UNCHANGED <<args, cancelled, offset, length, buffer, resolved, lastRead, puts, resp, ret>>

\* a failed DELETE replaces what the call returns
CleanupResponsePropagates(c) ==
    /\ pc = "cleanup"
    /\ net' = [net EXCEPT !.cleanup = c]
    /\ pc' = "done"
    /\ ret' = IF c = "204" THEN ret
              ELSE Returned(Return(NoItem, ErrorString("cleanup: " \o c)))
    /\ UNCHANGED <<args, cancelled, offset, length, buffer, resolved, lastRead, puts, resp>>

\* the result of the DELETE: every result is dropped, and the call returns
CleanupResponse(c) ==
    /\ pc = "cleanup"
    /\ net' = [net EXCEPT !.cleanup = c]
    /\ pc' = "done"
    /\ UNCHANGED <<args, cancelled, offset, length, buffer, resolved, lastRead, puts, resp, ret>>

\* the caller cancels ctx while the call is running; ctx is not consulted any
\* more once uploadChunk has returned
Cancel ==
    /\ pc \in {"creating", "step", "put"}
    /\ ~cancelled
    /\ cancelled' = TRUE
    /\ UNCHANGED <<pc, args, offset, length, buffer, resolved, lastRead, puts, resp, ret, net>>

\* the answers the service can give to the PUT in flight
Answers == IF pc = "put" THEN PutAnswers(lastRead.off, lastRead.n, lastRead.want) ELSE {}

Next ==
    \/ Call
    \/ \E r \in SessionResults(cancelled) : SessionResponse(r)
    \/ \E rd \in ReadAtResults(length, offset, args.dataLen, args.reader) : ReadAndSend(rd)
    \/ \E r \in Answers : PutResponse(r)
    \/ RunDeferred
    \/ \E c \in CleanupResults : CleanupResponse(c)
    \/ Cancel

Spec == Init /\ [][Next]_vars

----------------------------------------------------------------------------
(* The upload against a service that continues with open-ended ranges *)

\* the number of chunks of a file of size bytes
Chunks(size, chunk) == (size + chunk - 1) \div chunk

InitContinuing ==
    InitWith({a \in ValidArgs \cup ExampleArgs :
                /\ a.dataLen = a.size
                /\ a.reader = "sound"
                /\ Chunks(a.size, ChunkSize(a)) <= MaxPuts})

ContinuingAnswersNow == IF pc = "put" THEN ContinuingAnswers(puts) ELSE {}

NextContinuing ==
    \/ Call
    \/ SessionResponse(SessionCreated("https://upload.example/session1"))
    \/ \E rd \in ReadAtResults(length, offset, args.dataLen, args.reader) : ReadAndSend(rd)
    \/ \E r \in ContinuingAnswersNow : PutResponse(r)
    \/ RunDeferred
    \/ \E c \in CleanupResults : CleanupResponse(c)

SpecContinuing == InitContinuing /\ [][NextContinuing]_vars

----------------------------------------------------------------------------
(* Vocabulary of the properties *)

\* uploadChunk has returned or panicked
Left == ret.kind # "none"

\* this step receives the answer to the PUT in flight, resp'
Answered == pc = "put" /\ pc' # "put"

\* r is a 202 answer whose body decodes to a session with a first range entry
HasFirstRange(r) ==
    /\ ~r.transport /\ ~r.readErr /\ r.status = 202
    /\ r.body.kind = "session" /\ Len(r.body.ranges) >= 1
FirstRange(r) == r.body.ranges[1]

\* r is a 202 answer that decodes but carries no range entry
HasNoRange(r) ==
    /\ ~r.transport /\ ~r.readErr /\ r.status = 202
    /\ r.body.kind # "garbage"
    /\ (r.body.kind = "session" => Len(r.body.ranges) = 0)

\* starts and ends of the well-formed entries the service of the model sends
\* after the chunk of the last read, next to those of the documented example
RangeStarts == {0, lastRead.off, lastRead.off + lastRead.n, 1048576}
RangeEnds == {0, lastRead.off + lastRead.want - 1, lastRead.off + lastRead.n + lastRead.want - 1,
              lastRead.want - 1, 2097151} \cap (0..(Word - 1))

\* the chunk PUT in flight
Current == puts[Len(puts)]

\* the ranges of the PUTs as pairs
RangesOf(ps) == [i \in 1..Len(ps) |-> <<ps[i].first, ps[i].last>>]

RECURSIVE SumOfLengths(_)
SumOfLengths(ps) ==
    IF ps = <<>> THEN 0
    ELSE (ps[Len(ps)].last - ps[Len(ps)].first + 1) + SumOfLengths(SubSeq(ps, 1, Len(ps) - 1))

----------------------------------------------------------------------------
(* Properties *)

\* C1: against a service that answers every non-final chunk with 202 and the
\* open-ended range starting at the bytes received so far, and the final chunk
\* with 200/201, the call returns one drive item and no error, and the ranges of
\* the PUTs partition [0, size): the first starts at 0, each next one starts
\* right after the previous one, the last ends at size-1, the lengths sum to the
\* size.  Size 10,000,000 with chunks of 4,194,304 bytes takes the three PUTs
\* [0,4194303], [4194304,8388607], [8388608,9999999].
C1_RangesPartitionTheFile ==
    pc = "done" =>
        /\ ret.kind = "return" /\ ret.item # NoItem /\ ret.err = NoErr
        /\ Len(puts) >= 1
        /\ puts[1].first = 0
        /\ \A i \in 1..Len(puts) : puts[i].first <= puts[i].last
        /\ \A i \in 1..(Len(puts) - 1) : puts[i + 1].first = puts[i].last + 1
        /\ puts[Len(puts)].last = args.size - 1
        /\ SumOfLengths(puts) = args.size
        /\ (args.size = 10000000 /\ ChunkSize(args) = 4194304 =>
               RangesOf(puts) = << <<0, 4194303>>, <<4194304, 8388607>>, <<8388608, 9999999>> >>)

C1_Witness ==
    /\ pc = "done" /\ ret.item = "item1"
    /\ args.size = 10000000 /\ Len(puts) = 3
    /\ puts[3].contentRange = "bytes 8388608-9999999/10000000"

\* C2: a 202 answer whose first range entry is "start-end" with start <= end
\* makes the next step run with offset = start and length = end - start + 1.
C2_ClosedRangeLength ==
    [][\A a \in RangeStarts, b \in RangeEnds :
          (/\ Answered /\ HasFirstRange(resp') /\ a <= b
           /\ FirstRange(resp') = DecimalChars(a) \o Dash \o DecimalChars(b))
          => (pc' = "step" /\ offset' = a /\ length' = b - a + 1)]_vars

\* C3: once the session is created, the call does not end before the cleanup
\* has been attempted once, the cleanup starts only when uploadChunk has left
\* (no PUT in flight), and no PUT is sent after it.
C3_CleanupOnEveryExit ==
    [][/\ (pc' = "done" /\ net'.deferred => net'.cleanups = 1)
       /\ (net'.cleanups > net.cleanups => pc = "unwind" /\ Left)
       /\ (net.cleanups > 0 => puts' = puts)
       /\ (net'.deletes > net.deletes => ~Malformed(net.url))]_vars

C3_Witness ==
    /\ pc = "done" /\ net.cleanups = 1 /\ net.deletes = 1
    /\ ret.kind = "return" /\ ret.err # NoErr /\ Len(puts) = 2

\* C4: the PUT of a step carries Content-Length n and Content-Range
\* "bytes offset-(offset+n-1)/size" for the n bytes read at offset in that step,
\* and its body is those n bytes of the source; 500000 bytes read of 1048576
\* asked at offset 0 give "bytes 0-499999/<size>".
C4_HeadersOfBytesRead ==
    pc = "put" =>
        /\ Current.contentLength = Itoa(lastRead.n)
        /\ Current.contentRange =
               "bytes " \o Itoa(lastRead.off) \o "-" \o Itoa(lastRead.off + lastRead.n - 1)
                        \o "/" \o Itoa(args.size)
        /\ Current.body = [from |-> lastRead.off, len |-> lastRead.n, stale |-> FALSE]
        /\ (lastRead.off = 0 /\ lastRead.n = 500000 /\ args.size = 500000 =>
               Current.contentRange = "bytes 0-499999/500000")

C4_Witness ==
    /\ pc = "put" /\ lastRead.want = 1048576 /\ lastRead.n = 500000
    /\ Current.contentLength = "500000"

\* C5: a 202 answer that carries no range entry makes uploadChunk return the
\* "next expected ranges is empty" error and no item, and once uploadChunk has
\* left no PUT is sent.
C5_EmptyRangesFail ==
    [][/\ (Answered /\ HasNoRange(resp') =>
              /\ pc' = "unwind" /\ ret'.kind = "return" /\ ret'.item = NoItem
              /\ ret'.err = ErrorString("next expected ranges is empty, but we didn't receive DriveItem obejct in response")
              /\ puts' = puts)
       /\ (Left => puts' = puts /\ ret' = ret)]_vars

C5_Witness ==
    /\ pc = "done" /\ resp = HTTPResponse(202, SessionBody(<<>>))
    /\ ret.err.kind = "errorString" /\ Len(puts) = 2

\* C6: a read that produces zero bytes makes the step return an error and no
\* item, and sends no PUT.
C6_ZeroReadFails ==
    [][lastRead'.seq > lastRead.seq /\ lastRead'.n = 0 =>
          /\ puts' = puts
          /\ ret'.kind = "return" /\ ret'.item = NoItem /\ ret'.err # NoErr]_vars

\* C7: a 202 answer whose range starts at or before the offset of the chunk just
\* sent makes the upload fail instead of continuing.
C7_NonAdvancingOffsetFails ==
    [][\A a \in RangeStarts :
          (/\ Answered /\ HasFirstRange(resp') /\ a <= offset
           /\ FirstRange(resp') = DecimalChars(a) \o Dash)
          => (pc' = "unwind" /\ ret'.kind = "return" /\ ret'.err # NoErr)]_vars

\* C8: an answer with a status other than 200, 201, 202 whose body is not the
\* error shape (no JSON, or JSON without an error object) makes the upload fail
\* with the error made of the status line and the raw body.
C8_UndecodableErrorBody ==
    [][(/\ Answered /\ ~resp'.transport /\ ~resp'.readErr
        /\ resp'.status \notin {200, 201, 202}
        /\ resp'.body.kind \in {"garbage", "object", "item"})
       => (/\ ret'.kind = "return" /\ ret'.item = NoItem
           /\ ret'.err = ErrorString(resp'.line \o ": " \o resp'.body.raw))]_vars

\* C9: a 202 answer whose first range entry is "start-" makes the next step run
\* with offset = start and the length of the step just completed.
C9_OpenRangeKeepsLength ==
    [][\A a \in RangeStarts :
          (/\ Answered /\ HasFirstRange(resp')
           /\ FirstRange(resp') = DecimalChars(a) \o Dash)
          => (pc' = "step" /\ offset' = a /\ length' = length /\ length' = lastRead.want)]_vars

C9_Witness ==
    /\ pc = "step" /\ resolved = "range"
    /\ FirstRange(resp) = <<"1", "0", "4", "8", "5", "7", "6", "-">>
    /\ offset = 1048576 /\ length = 1048576

\* C10: a call that returns, returns an item or an error, and not both.
C10_ItemOrError ==
    pc = "done" /\ ret.kind = "return" => ((ret.item = NoItem) # (ret.err = NoErr))

\* C11: a transport failure of a chunk PUT makes uploadChunk return an error and
\* no item at once: the chunk is not sent again and no PUT follows.
C11_TransportFailureEndsUpload ==
    [][/\ (Answered /\ resp'.transport =>
              /\ pc' = "unwind" /\ puts' = puts
              /\ ret'.kind = "return" /\ ret'.item = NoItem /\ ret'.err.kind = "transport")
       /\ (resp.transport /\ net.answers > 0 => puts' = puts)]_vars

C11_Witness ==
    /\ pc = "done" /\ resp = TransportFailure /\ ~cancelled
    /\ ret.err.text = "transport failure" /\ Len(puts) = 2 /\ net.answers = 2

\* C12: a call with an empty destination, an empty file name, size zero or no
\* reader returns one of the "Please provide" errors and sends nothing: no session
\* request, no PUT, no cleanup DELETE.
C12_RejectedBeforeAnyRequest ==
    (args.dest = "" \/ args.name = "" \/ args.size = 0 \/ ~args.hasData) =>
        /\ pc \in {"idle", "done"}
        /\ net.posts = 0 /\ puts = <<>> /\ net.cleanups = 0 /\ net.deletes = 0
        /\ (pc = "done" =>
               /\ ret.kind = "return" /\ ret.item = NoItem
               /\ ret.err \in {ErrorString("Please provide the destination, i.e. the ID of the parent folder for this new item."),
                               ErrorString("Please provide the file name."),
                               ErrorString("Please provide the file size."),
                               ErrorString("Please provide the file reader.")})

C12_Witness ==
    /\ pc = "done" /\ args.size = 0 /\ args.dest # ""
    /\ ret.err = ErrorString("Please provide the file size.") /\ net.posts = 0

\* text s begins with text p
StartsWith(s, p) == Len(s) >= Len(p) /\ SubSeq(s, 1, Len(p)) = p

\* C13: at most one chunk PUT is in flight: a PUT is sent only when every earlier
\* PUT has been answered, and from the second PUT on its offset is the start of
\* the first range entry of the answer to the PUT before it.
C13_OnePutAtATime ==
    [][/\ (pc' = "put" => Len(puts') = net'.answers + 1)
       /\ (pc' # "put" => Len(puts') = net'.answers)
       /\ (puts' # puts =>
              /\ pc = "step" /\ Len(puts) = net.answers
              /\ Len(puts') = Len(puts) + 1 /\ SubSeq(puts', 1, Len(puts)) = puts
              /\ (Len(puts) >= 1 =>
                     /\ HasFirstRange(resp)
                     /\ \E a \in RangeStarts :
                            /\ StartsWith(FirstRange(resp), DecimalChars(a) \o Dash)
                            /\ puts'[Len(puts')].first = a))]_vars

C13_Witness ==
    /\ pc = "put" /\ Len(puts) = 2 /\ net.answers = 1
    /\ FirstRange(resp) = <<"0", "-">> /\ Current.first = 0 /\ puts[1].first = 0

\* C14: the answer to a PUT that is in flight under a cancelled ctx is a failure:
\* uploadChunk returns the cancellation error and no item, and no PUT is sent once
\* ctx is cancelled with a PUT in flight.
C14_CancelAbortsUpload ==
    [][/\ (Answered /\ cancelled =>
              /\ resp'.transport \/ resp'.readErr
              /\ pc' = "unwind" /\ ret'.kind = "return" /\ ret'.item = NoItem
              /\ ret'.err.text = "context canceled")
       /\ (cancelled /\ pc # "step" => puts' = puts)]_vars

C14_Witness ==
    /\ pc = "done" /\ cancelled /\ resp.readErr /\ Len(puts) = 2
    /\ ret.err = ContextCanceled /\ net.deletes = 1

----------------------------------------------------------------------------
(* The upload against a service whose ranges always advance, run to its end *)

\* the answers to a PUT at off in which every 202 carries a first range entry
\* whose start lies beyond off; the other answers are unrestricted
AdvancingAnswers(off, n, len) ==
    {r \in PutAnswers(off, n, len) :
        (~r.transport /\ ~r.readErr /\ r.status = 202) =>
            /\ HasFirstRange(r)
            /\ \E a \in {off + n, Word - 1} :
                   a > off /\ StartsWith(FirstRange(r), DecimalChars(a) \o Dash)}

AdvancingAnswersNow ==
    IF pc = "put" THEN AdvancingAnswers(lastRead.off, lastRead.n, lastRead.want) ELSE {}

\* sources short enough for the upload to end within the PUTs of the model:
\* every PUT starts beyond the one before and inside the source
InitAdvancing ==
    InitWith({a \in ValidArgs : a.dataLen \in {a.size, a.size - 1} /\ a.dataLen < MaxPuts}
             \cup InvalidArgs)

NextAdvancing ==
    \/ Call
    \/ \E r \in SessionResults(cancelled) : SessionResponse(r)
    \/ \E rd \in ReadAtResults(length, offset, args.dataLen, args.reader) : ReadAndSend(rd)
    \/ \E r \in AdvancingAnswersNow : PutResponse(r)
    \/ RunDeferred
    \/ \E c \in CleanupResults : CleanupResponse(c)
    \/ Cancel

\* the call is one goroutine that runs on whenever it can, and every request is
\* answered or fails
SpecAdvancing == InitAdvancing /\ [][NextAdvancing]_vars /\ WF_vars(NextAdvancing)

\* C15: with a finite source, and a service whose 202 answers always carry a
\* range starting beyond the chunk just sent and that answers every request, the
\* call ends: uploadChunk returns (or panics) and the call is over.
C15_UploadEnds == <>(pc = "done")

C15_Witness ==
    /\ pc = "done" /\ Len(puts) = 2 /\ puts[1].first < puts[2].first
    /\ ret.item = "item1" /\ resolved = "range"

\* C16: once uploadChunk has returned, nothing the cleanup does changes what
\* the call returns: not a DELETE request that cannot be built, not a transport
\* failure of the DELETE, not its status.
C16_CleanupNeverChangesOutcome ==
    [][(pc = "unwind" \/ pc = "cleanup") => (ret' = ret /\ puts' = puts)]_vars

C16_Witness ==
    /\ pc = "done" /\ net.cleanup = "500" /\ net.deletes = 1
    /\ ret.kind = "return" /\ ret.item = "item1" /\ ret.err = NoErr

\* C17: a read that returns fewer bytes than asked for, but more than none, with
\* an error that is not EOF makes the step fail without the chunk being sent.
\* The code looks at the error only when nothing was read (lines 723-733): the
\* short chunk is sent and the error of the reader is dropped.
C17_ShortReadFails ==
    [][(/\ lastRead'.seq > lastRead.seq
        /\ 0 < lastRead'.n /\ lastRead'.n < lastRead'.want
        /\ lastRead'.err # "EOF")
       => (puts' = puts /\ ret'.kind = "return" /\ ret'.err # NoErr)]_vars

\* C18: a PUT answered with a status other than 200, 201 and 202 and a body that
\* decodes to an error object makes the upload fail with that error, whose
\* message is "<code> - <message> (<date>)" with an inner error and
\* "<code> - <message>" without one.
C18_DomainErrorMessage ==
    [][(/\ Answered /\ ~resp'.transport /\ ~resp'.readErr
        /\ resp'.status \notin {200, 201, 202}
        /\ resp'.body.kind = "error")
       => LET e == resp'.body.error
          IN  /\ pc' = "unwind"
              /\ ret'.kind = "return" /\ ret'.item = NoItem
              /\ ret'.err.kind = "onedrive.Error"
              /\ ret'.err.text = IF e.inner
                                 THEN e.code \o " - " \o e.message \o " (" \o e.date \o ")"
                                 ELSE e.code \o " - " \o e.message]_vars

C18_Witness ==
    /\ pc = "done" /\ ~resp.transport /\ ~resp.readErr /\ resp.status = 400
    /\ resp.body.kind = "error" /\ resp.body.error.inner
    /\ ret.err.text = "invalidRequest - bad range (2020-01-01T00:00:00)"

\* C19, as stated: in every step whose offset and length come from the range of a
\* 202, offset + length <= file size and offset < file size before the read.
C19_ResolvedWithinFile ==
    (pc = "step" /\ resolved = "range") =>
        (offset + length <= args.size /\ offset < args.size)

\* C19, as the code has it: offset and length are taken from the range unchecked
\* (length is the length before for an open range); what stays inside the source
\* is the chunk a step sends: of a step whose offset and length come from the
\* range of a 202, the bytes sent start at offset, inside the source, and end
\* inside it.
C19_SentChunkWithinSource ==
    (pc = "put" /\ resolved = "range") =>
        /\ Current.first = offset /\ Current.body.from = offset
        /\ Current.body.len >= 1
        /\ offset < args.dataLen
        /\ offset + Current.body.len <= args.dataLen

C19_Witness ==
    /\ pc = "put" /\ resolved = "range" /\ Len(puts) = 2
    /\ args.dataLen = args.size /\ offset > 0
    /\ offset + length > args.size
    /\ Current.body.len = args.size - offset

\* C20: a PUT answered 200 or 201 with a body that decodes ends the upload with
\* the decoded item, whether or not every byte of the source was sent; and once
\* uploadChunk has returned, no PUT is sent and what it returned stays.
C20_CompletionIsFinal ==
    [][/\ (/\ Answered /\ ~resp'.transport /\ ~resp'.readErr
           /\ resp'.status \in {200, 201}
           /\ resp'.body.kind # "garbage")
          => /\ pc' = "unwind"
             /\ ret'.kind = "return" /\ ret'.err = NoErr
             /\ ret'.item = IF resp'.body.kind = "item" THEN resp'.body.id
                            ELSE "zero DriveItem"
       /\ (Left => (puts' = puts /\ ret' = ret /\ pc' \notin {"creating", "step", "put"}))]_vars

C20_Witness ==
    /\ pc = "done" /\ resp.status = 200 /\ ~resp.transport /\ ~resp.readErr
    /\ ret.item = "item1" /\ ret.err = NoErr
    /\ Len(puts) = 1 /\ BytesReceived(puts) < args.size

\* the first range entry of r is an integer alone: no "-" and no end
StartOnly(r) ==
    /\ HasFirstRange(r)
    /\ FirstRange(r) # <<>>
    /\ \A i \in 1..Len(FirstRange(r)) : IsDigit(FirstRange(r)[i])

\* C21: a 202 whose first range entry is the start alone either starts the next
\* step at that offset with the length of the step before, or makes the upload
\* fail with a returned error; it never makes uploadChunk panic.
\* The code indexes sp[1] of the split entry unconditionally (line 779).
C21_StartOnlyEntryIsAValue ==
    [][(Answered /\ StartOnly(resp'))
       => /\ ret'.kind # "panic"
          /\ \/ /\ pc' = "step"
                /\ offset' = ParseUint(FirstRange(resp')).val
                /\ length' = length
             \/ /\ ret'.kind = "return"
                /\ ret'.err # NoErr]_vars

\* C22: a call sends at most one session request; when that request fails the
\* call returns its error, and no PUT and no DELETE is ever sent; a PUT is sent
\* only after the session request succeeded.
C22_OneSessionRequest ==
    /\ net.posts <= 1
    /\ (puts # <<>> => (net.posts = 1 /\ net.url # ""))
    /\ (net.posts = 1 /\ pc # "creating" /\ net.url = "") =>
          /\ pc = "done"
          /\ ret.kind = "return" /\ ret.item = NoItem
          /\ ret.err = SessionError(IF cancelled THEN "context canceled"
                                    ELSE "accessDenied - no permission")
          /\ puts = <<>> /\ net.deletes = 0 /\ net.cleanups = 0

C22_Witness ==
    /\ pc = "done" /\ net.posts = 1 /\ net.url = "" /\ ~cancelled
    /\ ret.err = SessionError("accessDenied - no permission")
    /\ puts = <<>> /\ net.deletes = 0

\* C23: when the source holds exactly the declared number of bytes, every PUT
\* sent has 0 <= start <= end < total in its Content-Range and
\* Content-Length = end - start + 1 >= 1, the end being offset - 1 + n in the
\* arithmetic of the word; at offset 0, where offset - 1 wraps, the end is n - 1.
C23_ContentRangeWithinTotal ==
    args.dataLen = args.size =>
        \A i \in 1..Len(puts) :
            LET p == puts[i]
                n == p.body.len
            IN  /\ 0 <= p.first /\ p.first <= p.last /\ p.last < p.total
                /\ p.total = args.size
                /\ n >= 1 /\ n = p.last - p.first + 1
                /\ p.contentLength = Itoa(p.last - p.first + 1)
                /\ p.contentRange =
                       "bytes " \o Itoa(p.first) \o "-" \o Itoa(p.last) \o "/" \o Itoa(p.total)
                /\ (p.first = 0 => p.last = n - 1)

C23_Witness ==
    /\ args.dataLen = 3 /\ args.size = 3 /\ Len(puts) = 2
    /\ puts[1].first = 0 /\ puts[1].last = 1 /\ puts[1].contentLength = "2"
    /\ puts[1].contentRange = "bytes 0-1/3"
    /\ puts[2].contentRange = "bytes 2-2/3" /\ puts[2].contentLength = "1"

\* C24: across the steps of one upload the buffer is allocated anew only when
\* the length asked for exceeds the capacity of the allocation at hand, never
\* because an earlier short read cut the slice; and the slice handed to the PUT
\* holds exactly the bytes read.
\* The code compares the length asked for with len(buffer), which line 734 cut
\* to the bytes of the read before (lines 718-720).
C24_ReallocatedOnlyBeyondCapacity ==
    [][/\ (pc = "step" /\ buffer'.alloc # buffer.alloc) => length > buffer.cap
       /\ (puts' # puts => puts'[Len(puts')].body.len = lastRead'.n)]_vars

====
